---- MODULE Spec2Model ----
(***************************************************************************)
(* A model of src/main.rs: the Mandelbrot renderer (pixel_to_point,        *)
(* escape_time, render) and its fork-join band scheduler (concurrent),     *)
(* driven by main.                                                         *)
(*                                                                         *)
(* f64 is modelled by a binary floating-point format of the same kind with *)
(* a shorter significand: Precision significant bits, round to nearest,    *)
(* ties to even, gradual underflow on a grid of 2^-FracBits.  A float is   *)
(* the integer n that stands for n / 2^FracBits.  The inputs are finite    *)
(* and small, so infinities and NaN do not arise and are not modelled.     *)
(***************************************************************************)
EXTENDS Integers, Sequences, FiniteSets

\* Significant bits of the modelled float format (f64 has 53).
Precision == 8
\* The modelled floats are multiples of 2^-FracBits.
FracBits == 10

One == 2 ^ FracBits
TwoP == 2 ^ Precision

Abs(x) == IF x < 0 THEN -x ELSE x

\* The least power of two above k.
RECURSIVE PowerAbove(_, _)
PowerAbove(k, q) == IF k < q THEN q ELSE PowerAbove(k, 2 * q)

\* The spacing of the floats around mag/den: the least power of two q with
\* mag < 2^Precision * q * den.
Ulp(mag, den) ==
    LET k == mag \div (TwoP * den)
    IN  IF k < 1 THEN 1 ELSE IF k < 2 THEN 2 ELSE IF k < 4 THEN 4
        ELSE IF k < 8 THEN 8 ELSE IF k < 16 THEN 16 ELSE PowerAbove(k, 32)

\* num/d rounded to the nearest integer, ties to even (num >= 0, d > 0).
NearestEven(num, d) ==
    LET q == num \div d
        r == num % d
    IN  IF 2 * r < d THEN q
        ELSE IF 2 * r > d THEN q + 1
        ELSE q + (q % 2)

\* The float nearest to the rational num/den (den > 0), in units of 2^-FracBits.
Round(num, den) ==
    LET mag == Abs(num)
        q == Ulp(mag, den)
        n == q * NearestEven(mag, q * den)
    IN  IF num < 0 THEN -n ELSE n

\* f64 addition, subtraction, multiplication and division.
FAdd(a, b) == Round(a + b, 1)
FSub(a, b) == Round(a - b, 1)
FMul(a, b) == Round(a * b, One)
FDiv(a, b) == IF b < 0 THEN Round(-(a * One), -b) ELSE Round(a * One, b)
\* `x as f64` for a usize x.
AsF64(x) == Round(x * One, 1)

\* threads, in concurrent
threads == 12
\* The limit render gives escape_time
EscapeLimit == 255

\* Complex<f64>
Complex(re, im) == [re |-> re, im |-> im]

\* Complex multiplication and addition of the num crate, as used by z * z + c.
CMul(a, b) ==
    Complex(FSub(FMul(a.re, b.re), FMul(a.im, b.im)),
            FAdd(FMul(a.re, b.im), FMul(a.im, b.re)))
CAdd(a, b) == Complex(FAdd(a.re, b.re), FAdd(a.im, b.im))
norm_sqr(z) == FAdd(FMul(z.re, z.re), FMul(z.im, z.im))

\* Option<u32>
None == [some |-> FALSE, val |-> 0]
Some(i) == [some |-> TRUE, val |-> i]

\* escape_step, but reporting the pass after the one that escaped.
escape_step_late(st, c) ==
    IF st.out.some THEN st
    ELSE LET z1 == CAdd(CMul(st.z, st.z), c)
         IN  IF norm_sqr(z1) > 4 * One
             THEN [z |-> z1, i |-> st.i, out |-> Some(st.i + 1)]
             ELSE [z |-> z1, i |-> st.i + 1, out |-> None]

\* One pass through the body of `for i in 0..limit` in escape_time.  st holds
\* the orbit z, the loop counter i and the value returned so far (out).
escape_step(st, c) ==
    IF st.out.some THEN st
    ELSE LET z1 == CAdd(CMul(st.z, st.z), c)
         IN  IF norm_sqr(z1) > 4 * One
             THEN [z |-> z1, i |-> st.i, out |-> Some(st.i)]
             ELSE [z |-> z1, i |-> st.i + 1, out |-> None]

\* n passes through the loop body, stopping at the first `return Some(i)`.
\* The passes are split in halves to keep the evaluation shallow.
RECURSIVE escape_loop(_, _, _)
escape_loop(st, c, n) ==
    IF n = 0 \/ st.out.some THEN st
    ELSE IF n = 1 THEN escape_step(st, c)
    ELSE escape_loop(escape_loop(st, c, n \div 2), c, n - (n \div 2))

escape_time(c, limit) ==
    escape_loop([z |-> Complex(0, 0), i |-> 0, out |-> None], c, limit).out

\* pixel_to_point, but with the two grid dimensions swapped.
pixel_to_point_swapped(pixel_width, pixel_height, target_pixel, upper_left, lower_right) ==
    LET width == FSub(lower_right.re, upper_left.re)
        height == FSub(upper_left.im, lower_right.im)
    IN  Complex(
            FAdd(upper_left.re,
                 FDiv(FMul(AsF64(target_pixel[1]), width), AsF64(pixel_height))),
            FSub(upper_left.im,
                 FDiv(FMul(AsF64(target_pixel[2]), height), AsF64(pixel_width))))

pixel_to_point(pixel_width, pixel_height, target_pixel, upper_left, lower_right) ==
    LET width == FSub(lower_right.re, upper_left.re)
        height == FSub(upper_left.im, lower_right.im)
    IN  Complex(
            FAdd(upper_left.re,
                 FDiv(FMul(AsF64(target_pixel[1]), width), AsF64(pixel_width))),
            FSub(upper_left.im,
                 FDiv(FMul(AsF64(target_pixel[2]), height), AsF64(pixel_height))))

\* `x as u8`
AsU8(x) == x % 256

\* The number a decimal string n/d parses to (f64::from_str rounds to nearest).
Dec(n, d) == IF n < 0 THEN -Round((-n) * One, d) ELSE Round(n * One, d)

----------------------------------------------------------------------------
(* render *)

\* render without its assertion.
render_assert_off(len, pixel_width, pixel_height) == TRUE

\* assert!(pixels.len() == pixel_width * pixel_height * 3)
render_assert(len, pixel_width, pixel_height) ==
    len = pixel_width * pixel_height * 3

\* The index as in the lines commented out in render: the row not scaled by 3.
render_index_unscaled(row, column, pixel_width) == row * pixel_width + column * 3

\* The index of a pixel's first byte in the region render was given.
render_index(row, column, pixel_width) == row * pixel_width * 3 + column * 3

\* escaped_colour, but with the gradient scaled by 256.
escaped_colour_256(count, column, pixel_width) ==
    << 255 - AsU8(count),
       AsU8((column * 256) \div pixel_width),
       AsU8(255 - (column * 256) \div pixel_width) >>

\* The three bytes render stores for a pixel that escaped after `count` steps.
escaped_colour(count, column, pixel_width) ==
    << 255 - AsU8(count),
       AsU8((column * 255) \div pixel_width),
       AsU8(255 - (column * 255) \div pixel_width) >>

\* The bytes of pixel (column, row) of a render call r.
pixel_colour(r, row, column) ==
    LET point == pixel_to_point(r.pixel_width, r.pixel_height, <<column, row>>,
                                r.upper_left, r.lower_right)
        m == escape_time(point, EscapeLimit)
    IN  IF m.some THEN escaped_colour(m.val, column, r.pixel_width)
        ELSE <<0, 0, 0>>

\* The first pixel of a call is preceded by the assertion of render.
render_asserts(r) ==
    r.pos = 0 /\ ~render_assert(r.band.len, r.pixel_width, r.pixel_height)

\* The bytes of the pixel at r.pos that lie inside the region: a store past
\* the end of the region panics.
render_stored(r) ==
    LET idx == render_index(r.pos \div r.pixel_width, r.pos % r.pixel_width,
                            r.pixel_width)
    IN  {j \in 0..2 : idx + j < r.band.len}

\* The buffer buf after the next step of the render call r: nothing when the
\* assertion fails or no pixel is left, else the stores of pixel r.pos.  With
\* count, buf counts the stores instead of holding the bytes.
render_stores(r, buf, count) ==
    LET row == r.pos \div r.pixel_width
        column == r.pos % r.pixel_width
        first == r.band.offset + render_index(row, column, r.pixel_width)
        stored == render_stored(r)
        colour == IF count THEN <<1, 1, 1>> ELSE pixel_colour(r, row, column)
    IN  IF render_asserts(r) \/ r.pixel_width * r.pixel_height = 0 THEN buf
        ELSE [k \in DOMAIN buf |->
                IF (k - first) \in stored
                THEN (IF count THEN buf[k] + 1 ELSE colour[k - first + 1])
                ELSE buf[k]]

\* The render call r after its next step.
render_advance(r) ==
    IF render_asserts(r) THEN [r EXCEPT !.status = "panicked"]
    ELSE IF r.pixel_width * r.pixel_height = 0 THEN [r EXCEPT !.status = "done"]
    ELSE [r EXCEPT !.pos = r.pos + 1,
                   !.status = IF render_stored(r) # {0, 1, 2} THEN "panicked"
                              ELSE IF r.pos + 1 = r.pixel_width * r.pixel_height
                              THEN "done"
                              ELSE "running"]

----------------------------------------------------------------------------
(* concurrent *)

rows_per_band(pixel_height) == pixel_height \div threads + 1

\* slice.chunks_exact_mut(chunk_size): the chunks of full size only.
chunks_exact_mut(len, chunk_size) ==
    [k \in 1..(len \div chunk_size) |->
        [offset |-> (k - 1) * chunk_size, len |-> chunk_size]]

\* slice.chunks_mut(chunk_size) on a slice of length len: consecutive chunks
\* of chunk_size elements, the last one holding what is left.
chunks_mut(len, chunk_size) ==
    [k \in 1..((len + chunk_size - 1) \div chunk_size) |->
        [offset |-> (k - 1) * chunk_size,
         len |-> IF k * chunk_size <= len THEN chunk_size
                 ELSE len - (k - 1) * chunk_size]]

\* top, with the bands counted from 1.
band_top_from_one(rpb, i) == rpb * (i + 1)

\* let top = rows_per_band * i   (i counts from 0)
band_top(rpb, i) == rpb * i

\* let band_height = band.len() / (pixel_width * 3)
band_height_of(band, pixel_width) == band.len \div (pixel_width * 3)

\* A scope that does not wait for its threads.
scope_not_joined(ws) == TRUE

\* The scope has joined every thread it spawned.
scope_joined(ws) == \A w \in DOMAIN ws : ws[w].status # "running"

VARIABLES
    pixel_width, pixel_height,  \* main: the parsed image dimensions
    upper_left, lower_right,    \* main: the parsed corners of the window
    pixels,                     \* main: the pixel buffer, index -> byte
    writes,                     \* history: how often each byte was stored
    bands,                      \* concurrent: the chunks of the buffer
    workers,                    \* the render calls started so far
    pc,                         \* where the main thread is
    scope_result,               \* what crossbeam::scope returned
    image,                      \* what write_image was given
    args, ret                   \* a single call of a pure function

vars == << pixel_width, pixel_height, upper_left, lower_right, pixels, writes,
           bands, workers, pc, scope_result, image, args, ret >>

----------------------------------------------------------------------------
(* Inputs *)

MaxWidth == 2
MaxHeight == 3
\* Heights of the runs in which one band renders to the end before the next
\* is spawned.
MaxSeqHeight == 13
\* How far the length of a region handed to render may be off.
MaxSkew == 3
\* The limits escape_time is called with on its own.
MaxLimit == 5

\* Plane windows as main parses them: the window of the repository's test,
\* the one of the usage message, and two further ones.
WindowTest  == << Complex(Dec(-1, 1), Dec(1, 1)), Complex(Dec(1, 1), Dec(-1, 1)) >>
WindowUsage == << Complex(Dec(-120, 100), Dec(35, 100)),
                  Complex(Dec(-1, 1), Dec(20, 100)) >>
WindowWide  == << Complex(Dec(-2, 1), Dec(1, 1)), Complex(Dec(9, 10), Dec(-1, 1)) >>
Windows == {WindowTest, WindowUsage, WindowWide}

SmallGrids == (1..MaxWidth) \X (1..MaxHeight)
\* Grids with at least `threads` rows, whose bands hold more than one row.
TallGrids == {<<1, 12>>, <<1, 13>>}
SeqGrids == ((1..MaxWidth) \X (1..MaxSeqHeight)) \cup {<<1, 23>>}

Zeros(n) == [k \in 0..(n - 1) |-> 0]

\* main has parsed its arguments and allocated vec![0; w * h * 3].
InitMain(inputs) ==
    /\ \E in \in inputs :
        /\ pixel_width = in[1][1]
        /\ pixel_height = in[1][2]
        /\ upper_left = in[2][1]
        /\ lower_right = in[2][2]
    /\ pixels = Zeros(pixel_width * pixel_height * 3)
    /\ writes = Zeros(pixel_width * pixel_height * 3)
    /\ bands = << >>
    /\ workers = << >>
    /\ pc = "concurrent"
    /\ scope_result = "none"
    /\ image = << >>
    /\ args = << >>
    /\ ret = << >>

----------------------------------------------------------------------------
(* Actions *)

\* concurrent, up to the collected bands.
Concurrent_enter ==
    /\ pc = "concurrent"
    /\ bands' = chunks_mut(pixel_width * pixel_height * 3,
                           rows_per_band(pixel_height) * pixel_width * 3)
    /\ pc' = "spawn"
    /\ UNCHANGED << pixel_width, pixel_height, upper_left, lower_right, pixels,
                    writes, workers, scope_result, image, args, ret >>

\* One pass through `for (i, band) in bands.into_iter().enumerate()`: the
\* band's window is computed and its thread is started.
Spawn ==
    /\ pc = "spawn"
    /\ Len(workers) < Len(bands)
    /\ LET i == Len(workers)
           band == bands[i + 1]
           top == band_top(rows_per_band(pixel_height), i)
           band_height == band_height_of(band, pixel_width)
           band_upper_left ==
               pixel_to_point(pixel_width, pixel_height, <<0, top>>,
                              upper_left, lower_right)
           band_lower_right ==
               pixel_to_point(pixel_width, pixel_height,
                              <<pixel_width, top + band_height>>,
                              upper_left, lower_right)
       IN  workers' = Append(workers,
               [band |-> band, top |-> top,
                pixel_width |-> pixel_width, pixel_height |-> band_height,
                upper_left |-> band_upper_left, lower_right |-> band_lower_right,
                pos |-> 0, status |-> "running"])
    /\ UNCHANGED << pixel_width, pixel_height, upper_left, lower_right, pixels,
                    writes, bands, pc, scope_result, image, args, ret >>

\* One step of the render call of thread w: the assertion when the call
\* starts, then the stores of one pixel.  pos counts the pixels done, in the
\* order of the loops (rows, then columns).  A store past the end of the
\* region panics, after the stores before it.  The three stores of a pixel
\* are one step: the history variable `writes` counts them byte by byte, so
\* two calls storing to one byte show whatever the order of the stores.
Render_step(w) ==
    /\ w \in DOMAIN workers
    /\ workers[w].status = "running"
    /\ pixels' = render_stores(workers[w], pixels, FALSE)
    /\ writes' = render_stores(workers[w], writes, TRUE)
    /\ workers' = [workers EXCEPT ![w] = render_advance(workers[w])]
    /\ UNCHANGED << pixel_width, pixel_height, upper_left, lower_right, bands,
                    pc, scope_result, image, args, ret >>

\* A thread fails between two pixels.
Worker_panic(w) ==
    /\ w \in DOMAIN workers
    /\ workers[w].status = "running"
    /\ workers' = [workers EXCEPT ![w].status = "panicked"]
    /\ UNCHANGED << pixel_width, pixel_height, upper_left, lower_right, pixels,
                    writes, bands, pc, scope_result, image, args, ret >>

\* crossbeam::scope returns once the closure is through and every thread has
\* ended: Err if one of them panicked.  concurrent drops that value (the
\* statement ends in `;`) and returns to main.
Scope_join ==
    /\ pc = "spawn"
    /\ Len(workers) = Len(bands)
    /\ scope_joined(workers)
    /\ scope_result' = IF \E w \in DOMAIN workers : workers[w].status = "panicked"
                       THEN "Err" ELSE "Ok"
    /\ pc' = "write_image"
    /\ UNCHANGED << pixel_width, pixel_height, upper_left, lower_right, pixels,
                    writes, bands, workers, image, args, ret >>

\* main hands the buffer to write_image.
Write_image ==
    /\ pc = "write_image"
    /\ image' = pixels
    /\ pc' = "done"
    /\ UNCHANGED << pixel_width, pixel_height, upper_left, lower_right, pixels,
                    writes, bands, workers, scope_result, args, ret >>

----------------------------------------------------------------------------
(* The program: main, with its threads running in any order. *)

Init == InitMain((SmallGrids \X Windows) \cup (TallGrids \X {WindowUsage}))

Next ==
    \/ Concurrent_enter
    \/ Spawn
    \/ \E w \in DOMAIN workers : Render_step(w)
    \/ Scope_join
    \/ Write_image

Spec == Init /\ [][Next]_vars
----------------------------------------------------------------------------
(* The program with a thread that may fail. *)

InitFault == InitMain(SmallGrids \X {WindowTest, WindowUsage})

NextFault ==
    \/ Next
    \/ \E w \in DOMAIN workers : Worker_panic(w)

SpecFault == InitFault /\ [][NextFault]_vars

----------------------------------------------------------------------------
(* The program on the schedule that lets each thread render to its end     *)
(* before the next one is spawned.                                         *)

InitSeq == InitMain(SeqGrids \X {WindowTest, WindowUsage})

Spawn_seq == scope_joined(workers) /\ Spawn

NextSeq ==
    \/ Concurrent_enter
    \/ Spawn_seq
    \/ \E w \in DOMAIN workers : Render_step(w)
    \/ Scope_join
    \/ Write_image

SpecSeq == InitSeq /\ [][NextSeq]_vars

----------------------------------------------------------------------------
(* render, called on a region of any length (synchronous calls it on the   *)
(* whole buffer).                                                          *)

InitRender ==
    /\ \E g \in SmallGrids, win \in Windows, skew \in (-MaxSkew)..MaxSkew :
        /\ g[1] * g[2] * 3 + skew >= 0
        /\ pixel_width = g[1]
        /\ pixel_height = g[2]
        /\ upper_left = win[1]
        /\ lower_right = win[2]
        /\ pixels = Zeros(g[1] * g[2] * 3 + skew)
    /\ writes = pixels
    /\ bands = << [offset |-> 0, len |-> Cardinality(DOMAIN pixels)] >>
    /\ workers = << [band |-> bands[1], top |-> 0,
                     pixel_width |-> pixel_width, pixel_height |-> pixel_height,
                     upper_left |-> upper_left, lower_right |-> lower_right,
                     pos |-> 0, status |-> "running"] >>
    /\ pc = "render"
    /\ scope_result = "none"
    /\ image = << >>
    /\ args = << >>
    /\ ret = << >>

NextRender == \E w \in DOMAIN workers : Render_step(w)

SpecRender == InitRender /\ [][NextRender]_vars

\* The buffer synchronous leaves: render over the whole grid and window.
synchronous(pw, ph, ul, lr) ==
    LET r == [pixel_width |-> pw, pixel_height |-> ph,
              upper_left |-> ul, lower_right |-> lr]
        px == [p \in 0..(pw * ph - 1) |-> pixel_colour(r, p \div pw, p % pw)]
    IN  [k \in 0..(pw * ph * 3 - 1) |-> px[k \div 3][(k % 3) + 1]]

----------------------------------------------------------------------------
(* pixel_to_point and escape_time, called on their own. *)

PureInit(calls) ==
    /\ args \in calls
    /\ ret = << >>
    /\ pixel_width = 0
    /\ pixel_height = 0
    /\ upper_left = Complex(0, 0)
    /\ lower_right = Complex(0, 0)
    /\ pixels = << >>
    /\ writes = << >>
    /\ bands = << >>
    /\ workers = << >>
    /\ scope_result = "none"
    /\ image = << >>

PureUnchanged ==
    UNCHANGED << pixel_width, pixel_height, upper_left, lower_right, pixels,
                 writes, bands, workers, pc, scope_result, image, args >>

\* The calls of pixel_to_point: the corners and the pixels of small grids,
\* and the call of test_pixel_to_point.
PointCalls ==
    { [pixel_width |-> g[1], pixel_height |-> g[2], target_pixel |-> t,
       upper_left |-> win[1], lower_right |-> win[2]] :
        g \in SmallGrids, t \in (0..MaxWidth) \X (0..MaxHeight), win \in Windows }
    \cup
    { [pixel_width |-> 100, pixel_height |-> 100, target_pixel |-> t,
       upper_left |-> WindowTest[1], lower_right |-> WindowTest[2]] :
        t \in {<<0, 0>>, <<25, 75>>, <<100, 100>>} }

InitPoint == pc = "pixel_to_point" /\ PureInit(PointCalls)

Call_pixel_to_point ==
    /\ pc = "pixel_to_point"
    /\ ret = << >>
    /\ ret' = << pixel_to_point(args.pixel_width, args.pixel_height,
                                args.target_pixel, args.upper_left,
                                args.lower_right) >>
    /\ PureUnchanged

SpecPoint == InitPoint /\ [][Call_pixel_to_point]_vars

\* The points escape_time is called on, and the limits: small ones, and the
\* one render uses.
EscapePoints ==
    { Complex(Dec(a, 10), Dec(b, 10)) :
        a \in {-20, -13, -10, -7, 0, 3, 4, 12}, b \in {-11, 0, 1, 6, 10} }
Limits == (0..MaxLimit) \cup {EscapeLimit}

InitEscape ==
    /\ pc = "escape_time"
    /\ PureInit({ [c |-> c, limit1 |-> l1, limit2 |-> l2] :
                    c \in EscapePoints,
                    l1 \in Limits, l2 \in Limits })

\* escape_time(c, limit1) and escape_time(c, limit2)
Call_escape_time ==
    /\ pc = "escape_time"
    /\ ret = << >>
    /\ ret' = << escape_time(args.c, args.limit1), escape_time(args.c, args.limit2) >>
    /\ PureUnchanged

SpecEscape == InitEscape /\ [][Call_escape_time]_vars
----------------------------------------------------------------------------
(* Properties *)

Returned == pc \in {"write_image", "done"}
AllSpawned == pc \in {"spawn", "write_image", "done"} /\ Len(workers) = Len(bands)
NBands == Len(workers)
\* The rows [top, top + band_height) of band w.
BandRows(w) == workers[w].top .. (workers[w].top + workers[w].pixel_height - 1)

\* C1: the row ranges [top, top + band_height) of the bands concurrent makes
\* never overlap, and once every band is spawned their union is exactly
\* [0, pixel_height), whether or not threads divides pixel_height.
C1_BandCoverage ==
    /\ \A v, w \in DOMAIN workers : v # w => BandRows(v) \cap BandRows(w) = {}
    /\ AllSpawned =>
        UNION {BandRows(w) : w \in DOMAIN workers} = 0..(pixel_height - 1)

\* C1 witness: every band is spawned, threads does not divide pixel_height,
\* the bands hold several rows and the last one is shorter.
C1_Witness ==
    /\ AllSpawned
    /\ pixel_height % threads # 0
    /\ NBands > 1
    /\ workers[1].pixel_height > 1
    /\ workers[NBands].pixel_height < workers[1].pixel_height

\* C2: no byte of the pixel buffer is stored twice, by one thread or by two,
\* and when concurrent has returned every byte has been stored exactly once.
C2_WrittenExactlyOnce ==
    /\ \A k \in DOMAIN writes : writes[k] <= 1
    /\ Returned => \A k \in DOMAIN writes : writes[k] = 1

\* C2 witness: concurrent has returned from several threads, whose bands hold
\* more than one row.
C2_Witness ==
    /\ pc = "write_image"
    /\ NBands > 1
    /\ \E w \in DOMAIN workers : workers[w].pixel_height > 1
    /\ workers[NBands].pixel_height < workers[1].pixel_height

\* C3: if a thread spawned by concurrent panics, main never reaches
\* write_image, and no partial image is written.
C3_PanicPropagates ==
    Returned => \A w \in DOMAIN workers : workers[w].status # "panicked"

\* C4: concurrent returns only after every thread it spawned has completed,
\* so write_image starts after the last store and writes the final buffer.
C4_JoinedBeforeReturn ==
    /\ Returned =>
        /\ Len(workers) = Len(bands)
        /\ \A w \in DOMAIN workers : workers[w].status = "done"
    /\ pc = "done" => image = pixels

\* C4 witness: write_image has run after several threads rendered.
C4_Witness == pc = "done" /\ NBands > 1 /\ image = pixels

\* C5: the buffer concurrent leaves is byte for byte the buffer synchronous
\* leaves for the same grid and window.
C5_SameAsSynchronous ==
    pc = "write_image" =>
        pixels = synchronous(pixel_width, pixel_height, upper_left, lower_right)

ExactExtent(a) ==
    LET w == a.lower_right.re - a.upper_left.re
        h == a.upper_left.im - a.lower_right.im
    IN  /\ FSub(a.lower_right.re, a.upper_left.re) = w
        /\ FSub(a.upper_left.im, a.lower_right.im) = h
        /\ FMul(AsF64(a.pixel_width), w) = a.pixel_width * w
        /\ FMul(AsF64(a.pixel_height), h) = a.pixel_height * h

TestCall ==
    [pixel_width |-> 100, pixel_height |-> 100, target_pixel |-> <<25, 75>>,
     upper_left |-> WindowTest[1], lower_right |-> WindowTest[2]]

\* C7, as claimed: pixel_to_point maps pixel (0, 0) to upper_left and pixel
\* (pixel_width, pixel_height) to lower_right, for every grid and window.
C7_Corners ==
    ret # << >> =>
        /\ args.target_pixel = <<0, 0>> => ret[1] = args.upper_left
        /\ args.target_pixel = <<args.pixel_width, args.pixel_height>> =>
            ret[1] = args.lower_right

\* C7, amended: pixel_to_point maps pixel (0, 0) to upper_left; it maps pixel
\* (pixel_width, pixel_height) to lower_right when the window's extents and
\* their products with the grid's dimensions are computed without rounding;
\* and the call of test_pixel_to_point gives (-0.5, -0.5).
C7_CornersWhenExact ==
    ret # << >> =>
        /\ args.target_pixel = <<0, 0>> => ret[1] = args.upper_left
        /\ (/\ args.target_pixel = <<args.pixel_width, args.pixel_height>>
            /\ ExactExtent(args)) => ret[1] = args.lower_right
        /\ args = TestCall => ret[1] = Complex(Dec(-5, 10), Dec(-5, 10))

\* C7 witness: the far corner of a grid that is not square, mapped under a
\* window whose extents are exact.
C7_Witness ==
    /\ ret # << >>
    /\ args.target_pixel = <<args.pixel_width, args.pixel_height>>
    /\ args.pixel_width > 1
    /\ args.pixel_width # args.pixel_height
    /\ ExactExtent(args)
    /\ ret[1] = args.lower_right

\* n further steps z -> z * z + c of the orbit of c from s.z; s.ok tells
\* whether every squared norm met so far is at most 4.0 (the scan stops at the
\* first that is not).
RECURSIVE OrbitScan(_, _, _)
OrbitScan(s, c, n) ==
    IF n = 0 \/ ~s.ok THEN s
    ELSE IF n = 1
    THEN LET z1 == CAdd(CMul(s.z, s.z), c)
         IN  [z |-> z1, ok |-> norm_sqr(z1) <= 4 * One]
    ELSE OrbitScan(OrbitScan(s, c, n \div 2), c, n - (n \div 2))

\* Step i (from 0) is the first at which the orbit's squared norm exceeds 4.0.
FirstEscape(c, i) ==
    LET s == OrbitScan([z |-> Complex(0, 0), ok |-> TRUE], c, i)
    IN  s.ok /\ norm_sqr(CAdd(CMul(s.z, s.z), c)) > 4 * One

\* C8: for limits L1 <= L2, escape_time(c, L1) = Some(i) gives
\* escape_time(c, L2) = Some(i), and escape_time(c, L1) = None gives None or
\* Some(j) with j >= L1 at L2; every Some(i) returned has 0 <= i < limit and i
\* is the first step at which the orbit's squared norm exceeds 4.0.
C8_MonotoneInLimit ==
    ret # << >> =>
        /\ (args.limit1 <= args.limit2 /\ ret[1].some) => ret[2] = ret[1]
        /\ (args.limit1 <= args.limit2 /\ ~ret[1].some) =>
            (~ret[2].some \/ ret[2].val >= args.limit1)
        /\ ret[1].some =>
            /\ ret[1].val \in 0..(args.limit1 - 1)
            /\ FirstEscape(args.c, ret[1].val)

\* C8 witness: a point that does not escape within the smaller limit and
\* escapes within the larger one.
C8_Witness ==
    /\ ret # << >>
    /\ args.limit1 > 0
    /\ args.limit1 < args.limit2
    /\ ~ret[1].some
    /\ ret[2].some
    /\ ret[2].val >= args.limit1

\* C9, as claimed: concurrent makes `threads` bands, all but the last of
\* rows_per_band rows, the last of strictly fewer rows.
C9_ThreadsBands ==
    AllSpawned =>
        /\ NBands = threads
        /\ \A w \in 1..(NBands - 1) :
            workers[w].pixel_height = rows_per_band(pixel_height)
        /\ workers[NBands].pixel_height < rows_per_band(pixel_height)

\* C9, amended: concurrent makes ceil(pixel_height / rows_per_band) bands, at
\* most `threads`; all but the last have rows_per_band rows, and the last has
\* the rows that are left, at least one and at most rows_per_band.
C9_BandShape ==
    AllSpawned =>
        LET rpb == rows_per_band(pixel_height)
        IN  /\ NBands = (pixel_height + rpb - 1) \div rpb
            /\ NBands <= threads
            /\ \A w \in 1..(NBands - 1) : workers[w].pixel_height = rpb
            /\ workers[NBands].pixel_height = pixel_height - (NBands - 1) * rpb
            /\ workers[NBands].pixel_height \in 1..rpb

\* C9 witness: fewer than `threads` bands of several rows, the last one as
\* long as the others.
C9_Witness ==
    /\ AllSpawned
    /\ NBands > 1
    /\ NBands < threads
    /\ rows_per_band(pixel_height) > 1
    /\ workers[NBands].pixel_height = rows_per_band(pixel_height)

\* The pixels a valid render call has stored so far.
DonePixels(r) ==
    IF render_assert(r.band.len, r.pixel_width, r.pixel_height)
    THEN 0..(r.pos - 1) ELSE {}

\* The three bytes of pixel p of the region of call r.
PixelBytes(r, p) ==
    << pixels[r.band.offset + 3 * p], pixels[r.band.offset + 3 * p + 1],
       pixels[r.band.offset + 3 * p + 2] >>

\* C10: for every pixel render has stored with Some(count), count < 255 and
\* the channel values 255 - count, column*255/pixel_width and
\* 255 - column*255/pixel_width lie in 0..255 and are the bytes stored (no
\* conversion wraps); a pixel that did not escape is stored as (0, 0, 0).
C10_ChannelsInRange ==
    \A w \in DOMAIN workers : \A p \in DonePixels(workers[w]) :
        LET r == workers[w]
            column == p % r.pixel_width
            m == escape_time(pixel_to_point(r.pixel_width, r.pixel_height,
                                 <<column, p \div r.pixel_width>>,
                                 r.upper_left, r.lower_right), EscapeLimit)
            raw == << 255 - m.val, (column * 255) \div r.pixel_width,
                      255 - (column * 255) \div r.pixel_width >>
        IN  IF m.some
            THEN /\ m.val < 255
                 /\ \A j \in 1..3 : raw[j] \in 0..255
                 /\ PixelBytes(r, p) = raw
            ELSE PixelBytes(r, p) = <<0, 0, 0>>

\* C10 witness: a finished render call with a pixel that did not escape and,
\* in a column other than the first, one that did.
C10_Witness ==
    \E w \in DOMAIN workers :
        LET r == workers[w]
        IN  /\ r.status = "done"
            /\ \E p \in DonePixels(r) : PixelBytes(r, p) = <<0, 0, 0>>
            /\ \E p \in DonePixels(r) :
                /\ p % r.pixel_width > 0
                /\ PixelBytes(r, p)[1] > 0
                /\ PixelBytes(r, p)[1] < 255
====
